---- MODULE Spec2Model ----
(***************************************************************************)
(* Model of python/worker.py: the model cache, the exclusive lock, the     *)
(* status fields and the three payload operations (status_payload,         *)
(* warmup_payload, transcribe_payload) run by concurrent caller threads.   *)
(* A thread's pc names the source line it is about to execute.             *)
(***************************************************************************)
EXTENDS Integers, Sequences, FiniteSets, TLC

\* ---------------------------------------------------------------- bounds
NumThreads == 2
MaxRequests == 2
MaxTime == 2
MaxLines == 2

Threads == 1..NumThreads

\* ------------------------------------------------------------ null values
\* Python's None is the empty tuple, a present value v is <<v>>.
None == <<>>
Some(v) == <<v>>
Val(o) == o[1]
\* Python truthiness of an optional string ("" and None are falsy).
Truthy(o) == o # None /\ Val(o) # ""

\* ------------------------------------------------------- request domains
Engines == {"whisper", "faster-whisper", "whisperx"}
ModelNames == {"small"}
ComputeTypes == {"int8"}
Devices == {"default"}
\* language: absent, the empty string, a language code
Languages == {None, Some(""), Some("en")}
\* audio_base64: absent/empty, not decodable (bad padding), decodable
Audios == {"", "abc", "QQ=="}
\* batch_size as the payload carries it: int() accepts "4", not "four"
BatchSizes == {"4", "four"}
Ops == {"status", "warmup", "transcribe"}

Payloads ==
    [op : Ops, engine : Engines, model : ModelNames, device : Devices,
     compute_type : ComputeTypes, language : Languages, audio : Audios,
     batch_size : BatchSizes]

\* --------------------------------------------------------------- strings
\* Transcript texts are sequences of one-character strings, so that strip
\* and join are computed as Python computes them.
RECURSIVE LStrip(_)
LStrip(s) == IF s # <<>> /\ Head(s) = " " THEN LStrip(Tail(s)) ELSE s

RECURSIVE RStrip(_)
RStrip(s) ==
    IF s # <<>> /\ s[Len(s)] = " " THEN RStrip(SubSeq(s, 1, Len(s) - 1)) ELSE s

Strip(s) == RStrip(LStrip(s))

RECURSIVE JoinSpace(_)
JoinSpace(ss) ==
    IF ss = <<>> THEN <<>>
    ELSE IF Len(ss) = 1 THEN ss[1]
    ELSE ss[1] \o <<" ">> \o JoinSpace(Tail(ss))

\* A segment is a record with an optional text; text None makes .strip() raise.
Seg(chars) == [text |-> Some(chars)]
BadSeg == [text |-> None]

SegsWellFormed(segments) == \A i \in 1..Len(segments) : segments[i].text # None

\* " ".join(seg.get("text", "").strip() for seg in segments).strip()
JoinSegments(segments) ==
    Strip(JoinSpace([i \in 1..Len(segments) |-> Strip(Val(segments[i].text))]))

\* What an engine transcribe call can hand back (text, segments).
EngineResults ==
    { [text |-> <<"a">>, segments |-> <<Seg(<<"a">>)>>],
      [text |-> <<>>, segments |-> <<>>],
      [text |-> <<>>, segments |-> <<Seg(<<" ", "a", " ">>), Seg(<<"b">>)>>],
      [text |-> <<>>, segments |-> <<Seg(<<" ">>)>>],
      [text |-> <<>>, segments |-> <<BadSeg>>] }

\* ------------------------------------------------------------- variables
VARIABLES
    model_cache,        \* key -> model instance
    model_lock,         \* 0 when free, else the holding thread
    last_error,
    last_load_model,
    last_load_ms,
    last_transcribe_ms,
    loading_model,
    loading_started_at,
    now,                \* the value time.time() returns
    tmp_files,          \* temporary audio files that exist, named by creator
    env,                \* [reliable, cuda]: fixed facts of the environment:
                        \* whether loads, file writes and inference can fail,
                        \* and whether torch reports an accelerator
    load_calls,         \* key -> number of engine load invocations so far
    loaded_ok,          \* the model instances an engine load has returned
    loaded_for,         \* instance -> the arguments its engine load was given
    stdin,              \* stdio mode: the lines the client sends
    lineno,             \* stdio mode: how many of them the loop has read
    stdout,             \* stdio mode: the lines emit_stdout has written
    msg_id,             \* stdio mode: msg.get("id") of the message in hand
    sio,                \* stdio mode: where run_stdio is ("http": not run)
    nreq,               \* requests started so far
    calls,              \* per thread: the engine transcribe calls of its invocation
    pc, req, loc, ret

globals ==
    <<model_cache, last_error, last_load_model, last_load_ms,
      last_transcribe_ms, loading_model, loading_started_at>>

vars ==
    <<model_cache, model_lock, last_error, last_load_model, last_load_ms,
      last_transcribe_ms, loading_model, loading_started_at, now, tmp_files,
      env, load_calls, loaded_ok, loaded_for, stdin, lineno, stdout, msg_id, sio,
      nreq, calls, pc, req, loc, ret>>

stdio == <<stdin, lineno, stdout, msg_id, sio>>

Free == 0

\* ------------------------------------------------------- pure functions
\* resolve_device (lines 83-97)
resolve_device(device, cuda) ==
    IF device = "" \/ device = "default" THEN (IF cuda THEN "cuda" ELSE "cpu")
    ELSE IF device = "gpu" THEN "cuda"
    ELSE IF device = "cuda" THEN "cuda"
    ELSE IF device = "cpu" THEN "cpu"
    ELSE device

\* language or '' (line 102)
LangOrEmpty(language) == IF Truthy(language) THEN Val(language) ELSE ""

\* the cache key of line 102
CacheKey(engine, model_name, resolved_device, compute_type, language) ==
    engine \o "|" \o model_name \o "|" \o resolved_device \o "|"
        \o compute_type \o "|" \o LangOrEmpty(language)

\* The key load_model_cached derives for a request: the payload functions
\* resolve the device once (lines 175, 192) and load_model_cached again (101).
KeyOf(p, cuda) ==
    CacheKey(p.engine, p.model,
             resolve_device(resolve_device(p.device, cuda), cuda),
             p.compute_type, p.language)

AllKeys == {KeyOf(p, c) : p \in Payloads, c \in BOOLEAN}

\* time.time(): the clock never goes back; it is capped by MaxTime.
TimeReads == {n \in {now, now + 1} : n <= MaxTime}

NoRet == [kind |-> "none", ok |-> FALSE, error |-> "", result |-> None]

LocInit ==
    [device |-> "", key |-> "", start |-> 0, model |-> None, cause |-> "",
     elapsed_ms |-> 0, rid |-> 0, has_path |-> FALSE,
     kwargs |-> [language |-> None],
     text |-> <<>>, segments |-> <<>>, pending |-> NoRet,
     cached_models |-> {}, s_last_error |-> None, s_last_load_model |-> None,
     s_last_load_ms |-> None, s_last_transcribe_ms |-> None,
     s_loading_model |-> None]

DefaultPayload ==
    [op |-> "status", engine |-> "whisperx", model |-> "small",
     device |-> "default", compute_type |-> "int8", language |-> None,
     audio |-> "", batch_size |-> "4"]

\* main() took the http branch (line 409): run_stdio is never called
StdioOff ==
    /\ stdin = <<>>
    /\ lineno = 0
    /\ stdout = <<>>
    /\ msg_id = None
    /\ sio = "http"

\* ------------------------------------------------------------------ Init
\* The state after the module is imported.  The environment is one in which
\* loads, file writes and inference may fail at any call, on a machine where
\* torch reports no accelerator.
Init ==
    /\ model_cache = <<>>
    /\ model_lock = Free
    /\ last_error = None
    /\ last_load_model = None
    /\ last_load_ms = None
    /\ last_transcribe_ms = None
    /\ loading_model = None
    /\ loading_started_at = None
    /\ now = 1
    /\ tmp_files = {}
    /\ env = [reliable |-> FALSE, cuda |-> FALSE]
    /\ load_calls = [k \in AllKeys |-> 0]
    /\ loaded_ok = {}
    /\ loaded_for = <<>>
    /\ StdioOff
    /\ nreq = 0
    /\ pc = [t \in Threads |-> "idle"]
    /\ calls = [t \in Threads |-> <<>>]
    /\ req = [t \in Threads |-> DefaultPayload]
    /\ loc = [t \in Threads |-> LocInit]
    /\ ret = [t \in Threads |-> NoRet]

\* ------------------------------------------------------------- requests
\* base64.b64decode raises on bad padding only
Decodable(audio) == audio # "abc"

\* int(payload.get("batch_size", 4)) raises on a non-numeric value
IntParsable(b) == b # "four"

\* status_payload takes no payload, warmup_payload reads neither audio nor
\* batch_size, and a transcribe request that is rejected at line 185, 190 or
\* 197 uses no field beyond the one that rejects it.
Requests ==
    {p \in Payloads :
        /\ p.op = "status" => p = DefaultPayload
        /\ p.op = "warmup" => p.audio = "" /\ p.batch_size = "4"
        /\ (p.op = "transcribe" /\ (p.audio = "" \/ ~Decodable(p.audio)))
              => p = [DefaultPayload EXCEPT !.op = "transcribe", !.audio = p.audio]
        /\ (p.op = "transcribe" /\ ~IntParsable(p.batch_size))
              => p = [DefaultPayload EXCEPT !.op = "transcribe", !.audio = "QQ==",
                                            !.batch_size = p.batch_size]}

Entry(op) ==
    IF op = "status" THEN "s160" ELSE IF op = "warmup" THEN "w171" ELSE "t183"

\* A caller thread invokes one of the payload functions.
Start(t) ==
    /\ pc[t] = "idle"
    /\ nreq < MaxRequests
    /\ \E p \in Requests :
        /\ req' = [req EXCEPT ![t] = p]
        /\ pc' = [pc EXCEPT ![t] = Entry(p.op)]
    /\ nreq' = nreq + 1
    /\ loc' = [loc EXCEPT ![t] = [LocInit EXCEPT !.rid = nreq + 1]]
    /\ ret' = [ret EXCEPT ![t] = NoRet]
    /\ calls' = [calls EXCEPT ![t] = <<>>]
    /\ UNCHANGED <<globals, model_lock, now, tmp_files, env, load_calls, loaded_ok, loaded_for, stdio>>

\* The caller has the function's outcome (return value or exception) and
\* answers its client; the thread is free for the next request.
Respond(t) ==
    /\ pc[t] = "done"
    /\ pc' = [pc EXCEPT ![t] = "idle"]
    /\ req' = [req EXCEPT ![t] = DefaultPayload]
    /\ ret' = [ret EXCEPT ![t] = NoRet]
    /\ calls' = [calls EXCEPT ![t] = <<>>]
    /\ UNCHANGED <<globals, model_lock, now, tmp_files, env, load_calls, loaded_ok, loaded_for, stdio, nreq, loc>>

\* Leave a payload function: its locals die, the outcome goes to the caller.
Finish(t, outcome) ==
    /\ pc' = [pc EXCEPT ![t] = "done"]
    /\ loc' = [loc EXCEPT ![t] = LocInit]
    /\ ret' = [ret EXCEPT ![t] = outcome]

Raised(msg) == [kind |-> "raise", ok |-> FALSE, error |-> msg, result |-> None]
Returned(ok, err, res) == [kind |-> "return", ok |-> ok, error |-> err, result |-> res]

\* ------------------------------------------------ status_payload (157-167)
\* No lock is taken; every global is read by its own bytecode, in the order
\* of the dict display.
StatusReadCache(t) ==
    /\ pc[t] = "s160"
    /\ loc' = [loc EXCEPT ![t].cached_models = DOMAIN model_cache]
    /\ pc' = [pc EXCEPT ![t] = "s161"]
    /\ UNCHANGED <<globals, model_lock, now, tmp_files, env, load_calls, loaded_ok, loaded_for, stdio, nreq, calls, req, ret>>

StatusReadLastError(t) ==
    /\ pc[t] = "s161"
    /\ loc' = [loc EXCEPT ![t].s_last_error = last_error]
    /\ pc' = [pc EXCEPT ![t] = "s162"]
    /\ UNCHANGED <<globals, model_lock, now, tmp_files, env, load_calls, loaded_ok, loaded_for, stdio, nreq, calls, req, ret>>

StatusReadLastLoadModel(t) ==
    /\ pc[t] = "s162"
    /\ loc' = [loc EXCEPT ![t].s_last_load_model = last_load_model]
    /\ pc' = [pc EXCEPT ![t] = "s163"]
    /\ UNCHANGED <<globals, model_lock, now, tmp_files, env, load_calls, loaded_ok, loaded_for, stdio, nreq, calls, req, ret>>

StatusReadLastLoadMs(t) ==
    /\ pc[t] = "s163"
    /\ loc' = [loc EXCEPT ![t].s_last_load_ms = last_load_ms]
    /\ pc' = [pc EXCEPT ![t] = "s164"]
    /\ UNCHANGED <<globals, model_lock, now, tmp_files, env, load_calls, loaded_ok, loaded_for, stdio, nreq, calls, req, ret>>

StatusReadLastTranscribeMs(t) ==
    /\ pc[t] = "s164"
    /\ loc' = [loc EXCEPT ![t].s_last_transcribe_ms = last_transcribe_ms]
    /\ pc' = [pc EXCEPT ![t] = "s165"]
    /\ UNCHANGED <<globals, model_lock, now, tmp_files, env, load_calls, loaded_ok, loaded_for, stdio, nreq, calls, req, ret>>

StatusReadLoadingModel(t) ==
    /\ pc[t] = "s165"
    /\ loc' = [loc EXCEPT ![t].s_loading_model = loading_model]
    /\ pc' = [pc EXCEPT ![t] = "s166"]
    /\ UNCHANGED <<globals, model_lock, now, tmp_files, env, load_calls, loaded_ok, loaded_for, stdio, nreq, calls, req, ret>>

StatusSnapshot(t, elapsed) ==
    [cached_models |-> loc[t].cached_models,
     last_error |-> loc[t].s_last_error,
     last_load_model |-> loc[t].s_last_load_model,
     last_load_ms |-> loc[t].s_last_load_ms,
     last_transcribe_ms |-> loc[t].s_last_transcribe_ms,
     loading_model |-> loc[t].s_loading_model,
     loading_elapsed_ms |-> elapsed]

\* line 166, the condition of the conditional expression: loading_started_at
\* is read and tested; when falsy the element is None and the dict is returned.
StatusTestStarted(t) ==
    /\ pc[t] = "s166"
    /\ IF loading_started_at # None
         THEN /\ pc' = [pc EXCEPT ![t] = "s166sub"]
              /\ UNCHANGED <<loc, ret>>
         ELSE Finish(t, Returned(TRUE, "", StatusSnapshot(t, None)))
    /\ UNCHANGED <<globals, model_lock, now, tmp_files, env, load_calls, loaded_ok, loaded_for, stdio, nreq, calls, req>>

\* line 166, the true branch: time.time() is called, loading_started_at is
\* read a second time and subtracted; None there is a TypeError.
StatusSubtract(t) ==
    /\ pc[t] = "s166sub"
    /\ \E n \in TimeReads :
        /\ now' = n
        /\ IF loading_started_at = None
             THEN Finish(t, Raised("TypeError"))
             ELSE Finish(t, Returned(TRUE, "",
                      StatusSnapshot(t, Some((n - Val(loading_started_at)) * 1000))))
    /\ UNCHANGED <<globals, model_lock, tmp_files, env, load_calls, loaded_ok, loaded_for, stdio, nreq, calls, req>>

\* --------------------------------------------- load_model_cached (100-154)
\* Runs in the thread that holds model_lock, called from warmup_payload
\* (line 177) and transcribe_payload (line 200).
AfterLoad(op) == IF op = "warmup" THEN "w178" ELSE "t201"

RequestKey(t) ==
    CacheKey(req[t].engine, req[t].model, resolve_device(loc[t].device, env.cuda),
             req[t].compute_type, req[t].language)

\* the hit path records a load as if one had been done
LoadLookupHitRecords(t) ==
    /\ pc[t] = "lmc101"
    /\ RequestKey(t) \in DOMAIN model_cache
    /\ loc' = [loc EXCEPT ![t].key = RequestKey(t),
                          ![t].model = Some(model_cache[RequestKey(t)])]
    /\ last_load_model' = Some(RequestKey(t))
    /\ last_load_ms' = Some(0)
    /\ pc' = [pc EXCEPT ![t] = AfterLoad(req[t].op)]
    /\ UNCHANGED <<model_cache, last_error, last_transcribe_ms, loading_model,
                   loading_started_at, model_lock, now, tmp_files, env,
                   load_calls, loaded_ok, loaded_for, stdio, nreq, calls, req, ret>>

\* lines 101-104, key present: the cached instance is returned, nothing else.
LoadLookupHit(t) ==
    /\ pc[t] = "lmc101"
    /\ RequestKey(t) \in DOMAIN model_cache
    /\ loc' = [loc EXCEPT ![t].key = RequestKey(t),
                          ![t].model = Some(model_cache[RequestKey(t)])]
    /\ pc' = [pc EXCEPT ![t] = AfterLoad(req[t].op)]
    /\ UNCHANGED <<globals, model_lock, now, tmp_files, env, load_calls, loaded_ok, loaded_for, stdio, nreq, calls, req, ret>>

\* lines 101-105, key absent: start = time.time()
LoadLookupMiss(t) ==
    /\ pc[t] = "lmc101"
    /\ RequestKey(t) \notin DOMAIN model_cache
    /\ \E n \in TimeReads :
        /\ now' = n
        /\ loc' = [loc EXCEPT ![t].key = RequestKey(t), ![t].start = n]
    /\ pc' = [pc EXCEPT ![t] = "lmc111"]
    /\ UNCHANGED <<globals, model_lock, tmp_files, env, load_calls, loaded_ok, loaded_for, stdio, nreq, calls, req, ret>>

\* line 111
LoadSetLoadingModel(t) ==
    /\ pc[t] = "lmc111"
    /\ loading_model' = Some(loc[t].key)
    /\ pc' = [pc EXCEPT ![t] = "lmc112"]
    /\ UNCHANGED <<model_cache, last_error, last_load_model, last_load_ms,
                   last_transcribe_ms, loading_started_at, model_lock, now,
                   tmp_files, env, load_calls, loaded_ok, loaded_for, stdio, nreq, calls, req, loc, ret>>

\* line 112; the thread then sits in the engine's load call (pc lmc114).
LoadSetLoadingStarted(t) ==
    /\ pc[t] = "lmc112"
    /\ loading_started_at' = Some(loc[t].start)
    /\ pc' = [pc EXCEPT ![t] = "lmc114"]
    /\ UNCHANGED <<model_cache, last_error, last_load_model, last_load_ms,
                   last_transcribe_ms, loading_model, model_lock, now,
                   tmp_files, env, load_calls, loaded_ok, loaded_for, stdio, nreq, calls, req, loc, ret>>

\* The message of the exception raised when the engine's library is missing.
UnavailableMsg(engine) ==
    IF engine = "whisper" THEN "No module named 'whisper'"
    ELSE IF engine = "faster-whisper"
      THEN "faster-whisper not installed. Install with: pip install -U faster-whisper"
    ELSE "whisperx not installed. Install with: pip install -U whisperx"

LoadErrorMsg == "load error"

\* model_cache[key] = model (line 153): a new or overwritten entry
CachePut(cache, key, model) ==
    [k \in DOMAIN cache \cup {key} |-> IF k = key THEN model ELSE cache[k]]

\* The configuration load_model_cached works with: its parameters (line 100)
\* with the device as resolved at line 101.
LoadArgs(t) ==
    [engine |-> req[t].engine, model_name |-> req[t].model,
     resolved_device |-> resolve_device(loc[t].device, env.cuda),
     compute_type |-> req[t].compute_type, language |-> req[t].language]

\* lines 114-140 and 147: the engine's load function returns a new model
\* instance; elapsed_ms is taken from the clock.
EngineLoadOk(t) ==
    /\ pc[t] = "lmc114"
    /\ load_calls' = [load_calls EXCEPT ![loc[t].key] = @ + 1]
    /\ \E n \in TimeReads :
        /\ now' = n
        /\ loc' = [loc EXCEPT ![t].model = Some(<<loc[t].key, load_calls'[loc[t].key]>>),
                              ![t].elapsed_ms = (n - loc[t].start) * 1000]
    /\ loaded_ok' = loaded_ok \cup {<<loc[t].key, load_calls'[loc[t].key]>>}
    /\ loaded_for' = CachePut(loaded_for, <<loc[t].key, load_calls'[loc[t].key]>>, LoadArgs(t))
    /\ pc' = [pc EXCEPT ![t] = "lmc148"]
    /\ UNCHANGED <<globals, model_lock, tmp_files, env, stdio, nreq, calls, req, ret>>

\* lines 114-140: the import fails (the load function is never called) or the
\* engine's load function raises (counted in load_calls, which is capped: no
\* more than MaxRequests raising calls per key).
EngineLoadFail(t) ==
    /\ pc[t] = "lmc114"
    /\ ~env.reliable
    /\ \/ /\ loc' = [loc EXCEPT ![t].cause = UnavailableMsg(req[t].engine)]
          /\ UNCHANGED load_calls
       \/ /\ load_calls[loc[t].key] < MaxRequests
          /\ loc' = [loc EXCEPT ![t].cause = LoadErrorMsg]
          /\ load_calls' = [load_calls EXCEPT ![loc[t].key] = @ + 1]
    /\ pc' = [pc EXCEPT ![t] = "lmc142"]
    /\ UNCHANGED <<globals, model_lock, now, tmp_files, env, loaded_ok, loaded_for, stdio, nreq, calls, req, ret>>

LoadFailedMsg(cause) == "model load failed: " \o cause

\* line 142
LoadFailSetError(t) ==
    /\ pc[t] = "lmc142"
    /\ last_error' = Some(LoadFailedMsg(loc[t].cause))
    /\ pc' = [pc EXCEPT ![t] = "lmc144"]
    /\ UNCHANGED <<model_cache, last_load_model, last_load_ms, last_transcribe_ms,
                   loading_model, loading_started_at, model_lock, now,
                   tmp_files, env, load_calls, loaded_ok, loaded_for, stdio, nreq, calls, req, loc, ret>>

\* the failure path leaves the load-in-progress marker set
LoadFailKeepLoadingModel(t) ==
    /\ pc[t] = "lmc144"
    /\ pc' = [pc EXCEPT ![t] = "lmc145"]
    /\ UNCHANGED <<globals, model_lock, now, tmp_files, env, load_calls, loaded_ok, loaded_for, stdio,
                   nreq, calls, req, loc, ret>>

\* line 144
LoadFailClearLoadingModel(t) ==
    /\ pc[t] = "lmc144"
    /\ loading_model' = None
    /\ pc' = [pc EXCEPT ![t] = "lmc145"]
    /\ UNCHANGED <<model_cache, last_error, last_load_model, last_load_ms,
                   last_transcribe_ms, loading_started_at, model_lock, now,
                   tmp_files, env, load_calls, loaded_ok, loaded_for, stdio, nreq, calls, req, loc, ret>>

\* line 145
LoadFailClearLoadingStarted(t) ==
    /\ pc[t] = "lmc145"
    /\ loading_started_at' = None
    /\ pc' = [pc EXCEPT ![t] = "lmc146"]
    /\ UNCHANGED <<model_cache, last_error, last_load_model, last_load_ms,
                   last_transcribe_ms, loading_model, model_lock, now,
                   tmp_files, env, load_calls, loaded_ok, loaded_for, stdio, nreq, calls, req, loc, ret>>

\* line 146: the exception leaves load_model_cached and the with block of the
\* caller (lines 176, 199), which releases the lock, and reaches the caller
\* of the payload function.
LoadRaise(t) ==
    /\ pc[t] = "lmc146"
    /\ model_lock' = Free
    /\ Finish(t, Raised(loc[t].cause))
    /\ UNCHANGED <<globals, now, tmp_files, env, load_calls, loaded_ok, loaded_for, stdio, nreq, calls, req>>

\* line 148
LoadSetLastLoadModel(t) ==
    /\ pc[t] = "lmc148"
    /\ last_load_model' = Some(loc[t].key)
    /\ pc' = [pc EXCEPT ![t] = "lmc149"]
    /\ UNCHANGED <<model_cache, last_error, last_load_ms, last_transcribe_ms,
                   loading_model, loading_started_at, model_lock, now,
                   tmp_files, env, load_calls, loaded_ok, loaded_for, stdio, nreq, calls, req, loc, ret>>

\* line 149
LoadSetLastLoadMs(t) ==
    /\ pc[t] = "lmc149"
    /\ last_load_ms' = Some(loc[t].elapsed_ms)
    /\ pc' = [pc EXCEPT ![t] = "lmc150"]
    /\ UNCHANGED <<model_cache, last_error, last_load_model, last_transcribe_ms,
                   loading_model, loading_started_at, model_lock, now,
                   tmp_files, env, load_calls, loaded_ok, loaded_for, stdio, nreq, calls, req, loc, ret>>

\* the success path forgets to clear loading_model
LoadClearLoadingModelForgotten(t) ==
    /\ pc[t] = "lmc150"
    /\ pc' = [pc EXCEPT ![t] = "lmc151"]
    /\ UNCHANGED <<globals, model_lock, now, tmp_files, env, load_calls, loaded_ok,
                   loaded_for, stdio, nreq, calls, req, loc, ret>>

\* line 150
LoadClearLoadingModel(t) ==
    /\ pc[t] = "lmc150"
    /\ loading_model' = None
    /\ pc' = [pc EXCEPT ![t] = "lmc151"]
    /\ UNCHANGED <<model_cache, last_error, last_load_model, last_load_ms,
                   last_transcribe_ms, loading_started_at, model_lock, now,
                   tmp_files, env, load_calls, loaded_ok, loaded_for, stdio, nreq, calls, req, loc, ret>>

\* line 151
LoadClearLoadingStarted(t) ==
    /\ pc[t] = "lmc151"
    /\ loading_started_at' = None
    /\ pc' = [pc EXCEPT ![t] = "lmc153"]
    /\ UNCHANGED <<model_cache, last_error, last_load_model, last_load_ms,
                   last_transcribe_ms, loading_model, model_lock, now,
                   tmp_files, env, load_calls, loaded_ok, loaded_for, stdio, nreq, calls, req, loc, ret>>

\* the model is returned without being stored
LoadInsertSkipped(t) ==
    /\ pc[t] = "lmc153"
    /\ pc' = [pc EXCEPT ![t] = AfterLoad(req[t].op)]
    /\ UNCHANGED <<globals, model_lock, now, tmp_files, env, load_calls, loaded_ok, loaded_for, stdio,
                   nreq, calls, req, loc, ret>>

\* the insert drops the entries already cached
LoadInsertEvicting(t) ==
    /\ pc[t] = "lmc153"
    /\ model_cache' = CachePut(<<>>, loc[t].key, Val(loc[t].model))
    /\ pc' = [pc EXCEPT ![t] = AfterLoad(req[t].op)]
    /\ UNCHANGED <<last_error, last_load_model, last_load_ms, last_transcribe_ms,
                   loading_model, loading_started_at, model_lock, now,
                   tmp_files, env, load_calls, loaded_ok, loaded_for, stdio, nreq, calls, req, loc, ret>>

\* lines 153-154
LoadInsert(t) ==
    /\ pc[t] = "lmc153"
    /\ model_cache' = CachePut(model_cache, loc[t].key, Val(loc[t].model))
    /\ pc' = [pc EXCEPT ![t] = AfterLoad(req[t].op)]
    /\ UNCHANGED <<last_error, last_load_model, last_load_ms, last_transcribe_ms,
                   loading_model, loading_started_at, model_lock, now,
                   tmp_files, env, load_calls, loaded_ok, loaded_for, stdio, nreq, calls, req, loc, ret>>

\* ------------------------------------------------ warmup_payload (170-178)
\* lines 171-175: the payload is read and the device resolved, no lock held.
WarmupEnter(t) ==
    /\ pc[t] = "w171"
    /\ loc' = [loc EXCEPT ![t].device = resolve_device(req[t].device, env.cuda)]
    /\ pc' = [pc EXCEPT ![t] = "w176"]
    /\ UNCHANGED <<globals, model_lock, now, tmp_files, env, load_calls, loaded_ok, loaded_for, stdio, nreq, calls, req, ret>>

\* line 176: with model_lock (blocks while another thread holds it)
WarmupAcquire(t) ==
    /\ pc[t] = "w176"
    /\ model_lock = Free
    /\ model_lock' = t
    /\ pc' = [pc EXCEPT ![t] = "lmc101"]
    /\ UNCHANGED <<globals, now, tmp_files, env, load_calls, loaded_ok, loaded_for, stdio, nreq, calls, req, loc, ret>>

\* warmup reports its duration in last_transcribe_ms
WarmupReturnTimed(t) ==
    /\ pc[t] = "w178"
    /\ model_lock' = Free
    /\ last_transcribe_ms' = Some(0)
    /\ Finish(t, Returned(TRUE, "", None))
    /\ UNCHANGED <<model_cache, last_error, last_load_model, last_load_ms,
                   loading_model, loading_started_at, now, tmp_files, env,
                   load_calls, loaded_ok, loaded_for, stdio, nreq, calls, req>>

\* lines 177-178: the with block ends, the lock is released, {"ok": True}
WarmupReturn(t) ==
    /\ pc[t] = "w178"
    /\ model_lock' = Free
    /\ Finish(t, Returned(TRUE, "", None))
    /\ UNCHANGED <<globals, now, tmp_files, env, load_calls, loaded_ok, loaded_for, stdio, nreq, calls, req>>

\* -------------------------------------------- transcribe_payload (181-298)
\* the rejection is recorded in last_error
TranscribeMissingAudioRecorded(t) ==
    /\ pc[t] = "t183"
    /\ req[t].audio = ""
    /\ last_error' = Some("transcribe failed: missing audio_base64")
    /\ Finish(t, Raised("missing audio_base64"))
    /\ UNCHANGED <<model_cache, last_load_model, last_load_ms, last_transcribe_ms,
                   loading_model, loading_started_at, model_lock, now, tmp_files,
                   env, load_calls, loaded_ok, loaded_for, stdio, nreq, calls, req>>

\* lines 183-185: audio_base64 absent or empty
TranscribeMissingAudio(t) ==
    /\ pc[t] = "t183"
    /\ req[t].audio = ""
    /\ Finish(t, Raised("missing audio_base64"))
    /\ UNCHANGED <<globals, model_lock, now, tmp_files, env, load_calls, loaded_ok, loaded_for, stdio, nreq, calls, req>>

\* lines 186-190: int() rejects batch_size
TranscribeBadBatchSize(t) ==
    /\ pc[t] = "t183"
    /\ req[t].audio # ""
    /\ ~IntParsable(req[t].batch_size)
    /\ Finish(t, Raised("invalid literal for int() with base 10: 'four'"))
    /\ UNCHANGED <<globals, model_lock, now, tmp_files, env, load_calls, loaded_ok, loaded_for, stdio, nreq, calls, req>>

\* the decode failure is recorded in last_error, before the lock is taken
TranscribeBadBase64Recorded(t) ==
    /\ pc[t] = "t183"
    /\ req[t].audio # ""
    /\ IntParsable(req[t].batch_size)
    /\ ~Decodable(req[t].audio)
    /\ last_error' = Some("invalid base64: Incorrect padding")
    /\ Finish(t, Raised("invalid base64: Incorrect padding"))
    /\ UNCHANGED <<model_cache, last_load_model, last_load_ms, last_transcribe_ms,
                   loading_model, loading_started_at, model_lock, now, tmp_files,
                   env, load_calls, loaded_ok, loaded_for, stdio, nreq, calls, req>>

\* lines 186-197: the audio does not decode
TranscribeBadBase64(t) ==
    /\ pc[t] = "t183"
    /\ req[t].audio # ""
    /\ IntParsable(req[t].batch_size)
    /\ ~Decodable(req[t].audio)
    /\ Finish(t, Raised("invalid base64: Incorrect padding"))
    /\ UNCHANGED <<globals, model_lock, now, tmp_files, env, load_calls, loaded_ok, loaded_for, stdio, nreq, calls, req>>

\* lines 186-195: the payload is read, the device resolved, the audio decoded
TranscribeDecoded(t) ==
    /\ pc[t] = "t183"
    /\ req[t].audio # ""
    /\ IntParsable(req[t].batch_size)
    /\ Decodable(req[t].audio)
    /\ loc' = [loc EXCEPT ![t].device = resolve_device(req[t].device, env.cuda)]
    /\ pc' = [pc EXCEPT ![t] = "t199"]
    /\ UNCHANGED <<globals, model_lock, now, tmp_files, env, load_calls, loaded_ok, loaded_for, stdio, nreq, calls, req, ret>>

\* the lock is taken without waiting for it to be free
TranscribeAcquireNoWait(t) ==
    /\ pc[t] = "t199"
    /\ model_lock' = t
    /\ pc' = [pc EXCEPT ![t] = "lmc101"]
    /\ UNCHANGED <<globals, now, tmp_files, env, load_calls, loaded_ok, loaded_for, stdio, nreq, calls, req, loc, ret>>

\* line 199: with model_lock
TranscribeAcquire(t) ==
    /\ pc[t] = "t199"
    /\ model_lock = Free
    /\ model_lock' = t
    /\ pc' = [pc EXCEPT ![t] = "lmc101"]
    /\ UNCHANGED <<globals, now, tmp_files, env, load_calls, loaded_ok, loaded_for, stdio, nreq, calls, req, loc, ret>>

\* line 201: NamedTemporaryFile(delete=False) creates the file
TmpCreate(t) ==
    /\ pc[t] = "t201"
    /\ tmp_files' = tmp_files \cup {loc[t].rid}
    /\ pc' = [pc EXCEPT ![t] = "t203"]
    /\ UNCHANGED <<globals, model_lock, now, env, load_calls, loaded_ok, loaded_for, stdio, nreq, calls, req, loc, ret>>

\* line 201 raises (no file is created); the with block releases the lock
TmpCreateFail(t) ==
    /\ pc[t] = "t201"
    /\ ~env.reliable
    /\ model_lock' = Free
    /\ Finish(t, Raised("cannot create temporary file"))
    /\ UNCHANGED <<globals, now, tmp_files, env, load_calls, loaded_ok, loaded_for, stdio, nreq, calls, req>>

\* lines 202-207: the bytes are written, tmp_path is bound, the file closed
TmpWrite(t) ==
    /\ pc[t] = "t203"
    /\ loc' = [loc EXCEPT ![t].has_path = TRUE]
    /\ pc' = [pc EXCEPT ![t] = "t210"]
    /\ UNCHANGED <<globals, model_lock, now, tmp_files, env, load_calls, loaded_ok, loaded_for, stdio, nreq, calls, req, ret>>

\* the failed write leaves transcribe_payload with the lock still held
TmpWriteFailKeepsLock(t) ==
    /\ pc[t] = "t203"
    /\ ~env.reliable
    /\ Finish(t, Raised("No space left on device"))
    /\ UNCHANGED <<globals, model_lock, now, tmp_files, env, load_calls, loaded_ok,
                   loaded_for, stdio, nreq, calls, req>>

\* lines 203-207: write or flush raises; the finally closes the file and the
\* exception leaves the with block (the try of line 209 is not entered).
TmpWriteFail(t) ==
    /\ pc[t] = "t203"
    /\ ~env.reliable
    /\ model_lock' = Free
    /\ Finish(t, Raised("No space left on device"))
    /\ UNCHANGED <<globals, now, tmp_files, env, load_calls, loaded_ok, loaded_for, stdio, nreq, calls, req>>

\* The language entry of kwargs per engine branch (lines 216-221, 224-227,
\* 244-247): absent (None), or present with the value passed.
KwargsFor(engine, language) ==
    IF engine = "whisper"
      THEN [language |-> IF language # None /\ Val(language) # ""
                           THEN Some(language) ELSE None]
    ELSE IF engine = "faster-whisper"
      THEN [language |-> Some(IF Truthy(language) THEN language ELSE None)]
    ELSE [language |-> Some(language)]

\* lines 210-259 up to the engine call: start_time, kwargs, and for whisperx
\* the audio buffer; the thread then sits in model.transcribe (pc t222).
InferBegin(t) ==
    /\ pc[t] = "t210"
    /\ \E n \in TimeReads :
        /\ now' = n
        /\ loc' = [loc EXCEPT ![t].start = n,
                              ![t].kwargs = KwargsFor(req[t].engine, req[t].language)]
    /\ pc' = [pc EXCEPT ![t] = "t222"]
    /\ UNCHANGED <<globals, model_lock, tmp_files, env, load_calls, loaded_ok, loaded_for, stdio, nreq, calls, req, ret>>

\* line 243: load_audio_with_fallback raises (whisperx branch only)
LoadAudioFail(t) ==
    /\ pc[t] = "t210"
    /\ ~env.reliable
    /\ req[t].engine = "whisperx"
    /\ \E n \in TimeReads :
        /\ now' = n
        /\ loc' = [loc EXCEPT ![t].start = n, ![t].cause = "no whisper module with load_audio found"]
    /\ pc' = [pc EXCEPT ![t] = "t291"]
    /\ UNCHANGED <<globals, model_lock, tmp_files, env, load_calls, loaded_ok, loaded_for, stdio, nreq, calls, req, ret>>

\* What the engine may return: a reliable engine returns well-formed segments.
ResultsOf(reliable) ==
    IF reliable THEN {r \in EngineResults : SegsWellFormed(r.segments)}
    ELSE EngineResults

\* lines 261-262
TextOf(r) == r.text
SegmentsOf(r) == r.segments

\* the condition of lines 263 and 278
DeriveFromSegments(text, segments) == text = <<>> /\ segments # <<>>

\* lines 261-267: the first pass's text; a failing join leaves text empty
FirstPassText(r) ==
    IF DeriveFromSegments(TextOf(r), SegmentsOf(r))
      THEN (IF SegsWellFormed(SegmentsOf(r)) THEN JoinSegments(SegmentsOf(r)) ELSE <<>>)
      ELSE TextOf(r)

\* the retry is tried whatever the engine
NeedsRetryAnyEngine(text, language, engine) == text = <<>> /\ Truthy(language)

\* line 268
NeedsRetry(text, language, engine) ==
    text = <<>> /\ Truthy(language) /\ engine # "faster-whisper"

\* lines 269-270: dict(kwargs) without "language"
RetryKwargs(kwargs) == [kwargs EXCEPT !.language = None]

CallRecord(kwargs, raised, r) == [kwargs |-> kwargs, raised |-> raised, result |-> r]
NoResult == [text |-> <<>>, segments |-> <<>>]

\* lines 228-241: the faster-whisper branch materializes the segments and
\* joins their stripped texts.
FasterResult(r) == [text |-> JoinSegments(r.segments), segments |-> r.segments]

\* lines 222/228-241/259 return, then lines 261-270: the first pass's result
\* is normalized and the retry decided.  In the faster-whisper branch a
\* segment without text raises while the result is built.
FirstPassReturn(t) ==
    /\ pc[t] = "t222"
    /\ \E r \in ResultsOf(env.reliable) :
        /\ calls' = [calls EXCEPT ![t] = Append(@, CallRecord(loc[t].kwargs, FALSE, r))]
        /\ IF req[t].engine = "faster-whisper" /\ ~SegsWellFormed(r.segments)
             THEN /\ loc' = [loc EXCEPT ![t].cause = "'NoneType' object has no attribute 'strip'"]
                  /\ pc' = [pc EXCEPT ![t] = "t291"]
             ELSE LET res == IF req[t].engine = "faster-whisper" THEN FasterResult(r) ELSE r
                      text == FirstPassText(res)
                  IN /\ loc' = [loc EXCEPT ![t].text = text, ![t].segments = SegmentsOf(res)]
                     /\ pc' = [pc EXCEPT ![t] =
                                 IF NeedsRetry(text, req[t].language, req[t].engine)
                                   THEN "t273" ELSE "t283"]
    /\ UNCHANGED <<globals, model_lock, now, tmp_files, env, load_calls, loaded_ok, loaded_for, stdio, nreq, req, ret>>

InferErrorMsg == "inference error"

\* the engine call of line 222, 228 or 259 raises
FirstPassRaise(t) ==
    /\ pc[t] = "t222"
    /\ ~env.reliable
    /\ calls' = [calls EXCEPT ![t] = Append(@, CallRecord(loc[t].kwargs, TRUE, NoResult))]
    /\ loc' = [loc EXCEPT ![t].cause = InferErrorMsg]
    /\ pc' = [pc EXCEPT ![t] = "t291"]
    /\ UNCHANGED <<globals, model_lock, now, tmp_files, env, load_calls, loaded_ok, loaded_for, stdio, nreq, req, ret>>

\* lines 276-279: text and segments are assigned from the retry's result, then
\* the join may raise (line 279 has no try of its own); the except of line 280
\* swallows it, the assignments of lines 276-277 stay.
RetryText(r) ==
    IF DeriveFromSegments(TextOf(r), SegmentsOf(r)) /\ SegsWellFormed(SegmentsOf(r))
      THEN JoinSegments(SegmentsOf(r))
      ELSE TextOf(r)

\* lines 271-279: the retry's engine call returns
RetryReturn(t) ==
    /\ pc[t] = "t273"
    /\ \E r \in ResultsOf(env.reliable) :
        /\ calls' = [calls EXCEPT ![t] =
                       Append(@, CallRecord(RetryKwargs(loc[t].kwargs), FALSE, r))]
        /\ loc' = [loc EXCEPT ![t].text = RetryText(r), ![t].segments = SegmentsOf(r)]
    /\ pc' = [pc EXCEPT ![t] = "t283"]
    /\ UNCHANGED <<globals, model_lock, now, tmp_files, env, load_calls, loaded_ok, loaded_for, stdio, nreq, req, ret>>

\* lines 271-275, 280-281: the retry's engine call raises, and is swallowed
RetryRaise(t) ==
    /\ pc[t] = "t273"
    /\ ~env.reliable
    /\ calls' = [calls EXCEPT ![t] =
                   Append(@, CallRecord(RetryKwargs(loc[t].kwargs), TRUE, NoResult))]
    /\ pc' = [pc EXCEPT ![t] = "t283"]
    /\ UNCHANGED <<globals, model_lock, now, tmp_files, env, load_calls, loaded_ok, loaded_for, stdio, nreq, req, loc, ret>>

TranscribeResult(text, segments) ==
    [text |-> text, segments |-> segments, segments_len |-> Len(segments)]

\* lines 283-289: last_transcribe_ms and the return value
TranscribeRecord(t) ==
    /\ pc[t] = "t283"
    /\ \E n \in TimeReads :
        /\ now' = n
        /\ last_transcribe_ms' = Some((n - loc[t].start) * 1000)
    /\ loc' = [loc EXCEPT ![t].pending =
                 Returned(TRUE, "", TranscribeResult(loc[t].text, loc[t].segments))]
    /\ pc' = [pc EXCEPT ![t] = "t296"]
    /\ UNCHANGED <<model_cache, last_error, last_load_model, last_load_ms,
                   loading_model, loading_started_at, model_lock,
                   tmp_files, env, load_calls, loaded_ok, loaded_for, stdio, nreq, calls, req, ret>>

TranscribeFailedMsg(cause) == "transcribe failed: " \o cause

\* the except block records the error and raises it again
TranscribeExceptReraises(t) ==
    /\ pc[t] = "t291"
    /\ last_error' = Some(TranscribeFailedMsg(loc[t].cause))
    /\ loc' = [loc EXCEPT ![t].pending = Raised(loc[t].cause)]
    /\ pc' = [pc EXCEPT ![t] = "t296"]
    /\ UNCHANGED <<model_cache, last_load_model, last_load_ms, last_transcribe_ms,
                   loading_model, loading_started_at, model_lock, now,
                   tmp_files, env, load_calls, loaded_ok, loaded_for, stdio, nreq, calls, req, ret>>

\* the except block returns the failure without recording it in last_error
TranscribeExceptUnrecorded(t) ==
    /\ pc[t] = "t291"
    /\ loc' = [loc EXCEPT ![t].pending =
                 Returned(FALSE, TranscribeFailedMsg(loc[t].cause), None)]
    /\ pc' = [pc EXCEPT ![t] = "t296"]
    /\ UNCHANGED <<globals, model_lock, now, tmp_files, env, load_calls, loaded_ok,
                   loaded_for, stdio, nreq, calls, req, ret>>

\* lines 290-293
TranscribeExcept(t) ==
    /\ pc[t] = "t291"
    /\ last_error' = Some(TranscribeFailedMsg(loc[t].cause))
    /\ loc' = [loc EXCEPT ![t].pending =
                 Returned(FALSE, TranscribeFailedMsg(loc[t].cause), None)]
    /\ pc' = [pc EXCEPT ![t] = "t296"]
    /\ UNCHANGED <<model_cache, last_load_model, last_load_ms, last_transcribe_ms,
                   loading_model, loading_started_at, model_lock, now,
                   tmp_files, env, load_calls, loaded_ok, loaded_for, stdio, nreq, calls, req, ret>>

\* lines 294-298: os.unlink(tmp_path)
TmpUnlink(t) ==
    /\ pc[t] = "t296"
    /\ tmp_files' = tmp_files \ {loc[t].rid}
    /\ pc' = [pc EXCEPT ![t] = "t298"]
    /\ UNCHANGED <<globals, model_lock, now, env, load_calls, loaded_ok, loaded_for, stdio, nreq, calls, req, loc, ret>>

\* the with block of line 199 ends: the lock is released, the value returned
TranscribeReturn(t) ==
    /\ pc[t] = "t298"
    /\ model_lock' = Free
    /\ Finish(t, loc[t].pending)
    /\ UNCHANGED <<globals, now, tmp_files, env, load_calls, loaded_ok, loaded_for, stdio, nreq, calls, req>>

\* ------------------------------------------------------------------ Next
StatusStep(t) ==
    \/ StatusReadCache(t)
    \/ StatusReadLastError(t)
    \/ StatusReadLastLoadModel(t)
    \/ StatusReadLastLoadMs(t)
    \/ StatusReadLastTranscribeMs(t)
    \/ StatusReadLoadingModel(t)
    \/ StatusTestStarted(t)
    \/ StatusSubtract(t)

LoadStep(t) ==
    \/ LoadLookupHit(t)
    \/ LoadLookupMiss(t)
    \/ LoadSetLoadingModel(t)
    \/ LoadSetLoadingStarted(t)
    \/ EngineLoadOk(t)
    \/ EngineLoadFail(t)
    \/ LoadFailSetError(t)
    \/ LoadFailClearLoadingModel(t)
    \/ LoadFailClearLoadingStarted(t)
    \/ LoadRaise(t)
    \/ LoadSetLastLoadModel(t)
    \/ LoadSetLastLoadMs(t)
    \/ LoadClearLoadingModel(t)
    \/ LoadClearLoadingStarted(t)
    \/ LoadInsert(t)

WarmupStep(t) ==
    \/ WarmupEnter(t)
    \/ WarmupAcquire(t)
    \/ WarmupReturn(t)

TranscribeStep(t) ==
    \/ TranscribeMissingAudio(t)
    \/ TranscribeBadBatchSize(t)
    \/ TranscribeBadBase64(t)
    \/ TranscribeDecoded(t)
    \/ TranscribeAcquire(t)
    \/ TmpCreate(t)
    \/ TmpCreateFail(t)
    \/ TmpWrite(t)
    \/ TmpWriteFail(t)
    \/ InferBegin(t)
    \/ LoadAudioFail(t)
    \/ FirstPassReturn(t)
    \/ FirstPassRaise(t)
    \/ RetryReturn(t)
    \/ RetryRaise(t)
    \/ TranscribeRecord(t)
    \/ TranscribeExcept(t)
    \/ TmpUnlink(t)
    \/ TranscribeReturn(t)

ThreadStep(t) ==
    \/ Start(t)
    \/ Respond(t)
    \/ StatusStep(t)
    \/ LoadStep(t)
    \/ WarmupStep(t)
    \/ TranscribeStep(t)

Next == \E t \in Threads : ThreadStep(t)

Spec == Init /\ [][Next]_vars

\* Every thread that can take a step eventually takes one: a running thread
\* is scheduled, an engine call terminates, a free lock is handed over.
FairSpec == Spec /\ \A t \in Threads : WF_vars(ThreadStep(t))

\* ------------------------------------------- two concurrent transcribes
\* The scenario of two (NumThreads) transcribe_payload calls entered at the
\* same time for one configuration, nothing cached, with an environment in
\* which load, file writes and inference succeed.
PairInit ==
    /\ model_cache = <<>>
    /\ model_lock = Free
    /\ last_error = None
    /\ last_load_model = None
    /\ last_load_ms = None
    /\ last_transcribe_ms = None
    /\ loading_model = None
    /\ loading_started_at = None
    /\ now = 1
    /\ tmp_files = {}
    /\ env \in [reliable : {TRUE}, cuda : BOOLEAN]
    /\ load_calls = [k \in AllKeys |-> 0]
    /\ loaded_ok = {}
    /\ loaded_for = <<>>
    /\ StdioOff
    /\ nreq = NumThreads
    /\ calls = [t \in Threads |-> <<>>]
    /\ pc = [t \in Threads |-> "t183"]
    /\ \E p \in {q \in Requests :
                   /\ q.op = "transcribe"
                   /\ q.audio # "" /\ Decodable(q.audio)
                   /\ IntParsable(q.batch_size)} :
         req = [t \in Threads |-> p]
    /\ loc = [t \in Threads |-> [LocInit EXCEPT !.rid = t]]
    /\ ret = [t \in Threads |-> NoRet]

PairStep(t) ==
    \/ Respond(t)
    \/ TranscribeDecoded(t)
    \/ TranscribeAcquire(t)
    \/ LoadLookupHit(t)
    \/ LoadLookupMiss(t)
    \/ LoadSetLoadingModel(t)
    \/ LoadSetLoadingStarted(t)
    \/ EngineLoadOk(t)
    \/ LoadSetLastLoadModel(t)
    \/ LoadSetLastLoadMs(t)
    \/ LoadClearLoadingModel(t)
    \/ LoadClearLoadingStarted(t)
    \/ LoadInsert(t)
    \/ TmpCreate(t)
    \/ TmpWrite(t)
    \/ InferBegin(t)
    \/ FirstPassReturn(t)
    \/ RetryReturn(t)
    \/ TranscribeRecord(t)
    \/ TmpUnlink(t)
    \/ TranscribeReturn(t)

PairNext == \E t \in Threads : PairStep(t)

PairSpec == PairInit /\ [][PairNext]_vars /\ \A t \in Threads : WF_vars(PairStep(t))

\* ------------------------------------------- an endless stream of requests
\* Caller threads that keep invoking warmup_payload and transcribe_payload
\* for one configuration, without end, in the environment of Init (loads,
\* file writes and inference may fail).  The temporary file of an invocation
\* is named by its thread.
LockRequests ==
    {p \in Requests :
        /\ p.op \in {"warmup", "transcribe"}
        /\ p.engine = "whisperx"
        /\ p.language = Some("en")
        /\ p.op = "transcribe" => p.audio = "QQ==" /\ IntParsable(p.batch_size)}

\* the state after import, at a moment when the clock reads MaxTime
LockInit ==
    /\ model_cache = <<>>
    /\ model_lock = Free
    /\ last_error = None
    /\ last_load_model = None
    /\ last_load_ms = None
    /\ last_transcribe_ms = None
    /\ loading_model = None
    /\ loading_started_at = None
    /\ now = MaxTime
    /\ tmp_files = {}
    /\ env = [reliable |-> FALSE, cuda |-> FALSE]
    /\ load_calls = [k \in AllKeys |-> 0]
    /\ loaded_ok = {}
    /\ loaded_for = <<>>
    /\ StdioOff
    /\ nreq = 0
    /\ pc = [t \in Threads |-> "idle"]
    /\ calls = [t \in Threads |-> <<>>]
    /\ req = [t \in Threads |-> DefaultPayload]
    /\ loc = [t \in Threads |-> LocInit]
    /\ ret = [t \in Threads |-> NoRet]

LockStart(t) ==
    /\ pc[t] = "idle"
    /\ \E p \in LockRequests :
        /\ req' = [req EXCEPT ![t] = p]
        /\ pc' = [pc EXCEPT ![t] = Entry(p.op)]
    /\ loc' = [loc EXCEPT ![t] = [LocInit EXCEPT !.rid = t]]
    /\ ret' = [ret EXCEPT ![t] = NoRet]
    /\ calls' = [calls EXCEPT ![t] = <<>>]
    /\ UNCHANGED <<globals, model_lock, now, tmp_files, env, load_calls, loaded_ok,
                   loaded_for, stdio, nreq>>

\* the steps of a request under way that do not wait for the lock
LockRun(t) ==
    \/ Respond(t)
    \/ LoadStep(t)
    \/ WarmupEnter(t)
    \/ WarmupReturn(t)
    \/ TranscribeDecoded(t)
    \/ TmpCreate(t)
    \/ TmpCreateFail(t)
    \/ TmpWrite(t)
    \/ TmpWriteFail(t)
    \/ InferBegin(t)
    \/ LoadAudioFail(t)
    \/ FirstPassReturn(t)
    \/ FirstPassRaise(t)
    \/ RetryReturn(t)
    \/ RetryRaise(t)
    \/ TranscribeRecord(t)
    \/ TranscribeExcept(t)
    \/ TmpUnlink(t)
    \/ TranscribeReturn(t)

LockNext ==
    \E t \in Threads :
        \/ LockStart(t)
        \/ LockRun(t)
        \/ WarmupAcquire(t)
        \/ TranscribeAcquire(t)

\* A running thread is scheduled and every engine call terminates (weak
\* fairness of the steps of a request under way); a thread waiting at
\* `with model_lock` gets the lock if it is released again and again (strong
\* fairness of the acquire).  Callers need not send further requests.
LockSpec ==
    /\ LockInit
    /\ [][LockNext]_vars
    /\ \A t \in Threads :
          /\ WF_vars(LockRun(t))
          /\ SF_vars(WarmupAcquire(t))
          /\ SF_vars(TranscribeAcquire(t))

\* ------------------------------------------- a warmup and a transcribe
\* One warmup_payload call and transcribe_payload calls, all for the same
\* engine, model, device, compute_type and language, entered at the same
\* time; the device ranges over every branch of resolve_device, with and
\* without an accelerator, and loads, file writes and inference may fail.
WarmDevices == {"default", "gpu", "cuda", "cpu", "mps"}

WarmFields ==
    [engine : Engines, model : ModelNames, device : WarmDevices,
     compute_type : ComputeTypes, language : Languages]

WarmPayload(f, op) ==
    [op |-> op, engine |-> f.engine, model |-> f.model, device |-> f.device,
     compute_type |-> f.compute_type, language |-> f.language,
     audio |-> IF op = "transcribe" THEN "QQ==" ELSE "", batch_size |-> "4"]

WarmKeys == {KeyOf(WarmPayload(f, "warmup"), c) : f \in WarmFields, c \in BOOLEAN}

WarmInit ==
    /\ model_cache = <<>>
    /\ model_lock = Free
    /\ last_error = None
    /\ last_load_model = None
    /\ last_load_ms = None
    /\ last_transcribe_ms = None
    /\ loading_model = None
    /\ loading_started_at = None
    /\ now = 1
    /\ tmp_files = {}
    /\ env \in [reliable : {FALSE}, cuda : BOOLEAN]
    /\ load_calls = [k \in WarmKeys |-> 0]
    /\ loaded_ok = {}
    /\ loaded_for = <<>>
    /\ StdioOff
    /\ nreq = NumThreads
    /\ calls = [t \in Threads |-> <<>>]
    /\ pc = [t \in Threads |-> IF t = 1 THEN "w171" ELSE "t183"]
    /\ \E f \in WarmFields :
         req = [t \in Threads |->
                  WarmPayload(f, IF t = 1 THEN "warmup" ELSE "transcribe")]
    /\ loc = [t \in Threads |-> [LocInit EXCEPT !.rid = t]]
    /\ ret = [t \in Threads |-> NoRet]

WarmNext ==
    \E t \in Threads :
        \/ LockRun(t)
        \/ WarmupAcquire(t)
        \/ TranscribeAcquire(t)

WarmSpec == WarmInit /\ [][WarmNext]_vars

\* ------------------------------------------------- run_stdio (355-395)
\* main() took the stdio branch (line 406): one thread, the loop of
\* run_stdio, reads the lines of stdin and calls the payload functions.
Loop == 1

\* msg.get("id"): absent or null, the empty string, a non-empty string
StdioIds == {None, Some(""), Some("x")}

\* msg.get("type"); "bogus" is a type the loop does not know
StdioTypes == {"status", "warmup", "transcribe", "bogus"}

\* msg.get("payload") or {} for a message of the given type
StdioPayloads(type) ==
    IF type = "warmup"
      THEN {[DefaultPayload EXCEPT !.op = "warmup", !.language = Some("en")]}
    ELSE IF type = "transcribe"
      THEN {p \in Requests :
              /\ p.op = "transcribe"
              /\ (p.audio = "QQ==" /\ IntParsable(p.batch_size)) =>
                    p.engine = "whisperx" /\ p.language = Some("en")}
    ELSE {DefaultPayload}

\* An inbound line by what lines 359-369 make of it: blank, not JSON, JSON
\* that is no object (a number, a list, null), or a message object.
StdioLines ==
    {[kind |-> k, id |-> None, type |-> "bogus", payload |-> DefaultPayload] :
        k \in {"blank", "badjson", "nonobject"}}
    \cup UNION {{[kind |-> "msg", id |-> i, type |-> ty, payload |-> p] :
                    i \in StdioIds, p \in StdioPayloads(ty)} : ty \in StdioTypes}

SeqsUpTo(S, n) == UNION {[1..k -> S] : k \in 0..n}

StdioInit ==
    /\ model_cache = <<>>
    /\ model_lock = Free
    /\ last_error = None
    /\ last_load_model = None
    /\ last_load_ms = None
    /\ last_transcribe_ms = None
    /\ loading_model = None
    /\ loading_started_at = None
    /\ now = 1
    /\ tmp_files = {}
    /\ env = [reliable |-> FALSE, cuda |-> FALSE]
    /\ load_calls = [k \in AllKeys |-> 0]
    /\ loaded_ok = {}
    /\ loaded_for = <<>>
    /\ stdin \in SeqsUpTo(StdioLines, MaxLines)
    /\ lineno = 0
    /\ stdout = <<>>
    /\ msg_id = None
    /\ sio = "356"
    /\ nreq = 0
    /\ pc = [t \in Threads |-> "idle"]
    /\ calls = [t \in Threads |-> <<>>]
    /\ req = [t \in Threads |-> DefaultPayload]
    /\ loc = [t \in Threads |-> LocInit]
    /\ ret = [t \in Threads |-> NoRet]

\* what emit_stdout writes: the ready line, a response line
ReadyLine == [type |-> "ready"]
ResponseLine(id, ok, error, result) ==
    [type |-> "response", id |-> id, ok |-> ok, error |-> error, result |-> result]

\* lines 356-357
StdioReady ==
    /\ sio = "356"
    /\ stdout' = Append(stdout, ReadyLine)
    /\ sio' = "358"
    /\ UNCHANGED <<globals, model_lock, now, tmp_files, env, load_calls, loaded_ok,
                   loaded_for, stdin, lineno, msg_id, nreq, calls, pc, req, loc, ret>>

\* the loop is at line 358 with a line left to read
AtLine(kind) ==
    /\ sio = "358"
    /\ pc[Loop] = "idle"
    /\ lineno < Len(stdin)
    /\ stdin[lineno + 1].kind = kind

\* lines 358-366: a blank line, or a line json.loads rejects: continue
StdioSkipLine ==
    /\ AtLine("blank") \/ AtLine("badjson")
    /\ lineno' = lineno + 1
    /\ UNCHANGED <<globals, model_lock, now, tmp_files, env, load_calls, loaded_ok,
                   loaded_for, stdin, stdout, msg_id, sio, nreq, calls, pc, req, loc, ret>>

\* lines 363, 367: json.loads returns a value that is no dict and msg.get
\* raises AttributeError, outside any try: run_stdio ends with the exception
StdioNotAnObject ==
    /\ AtLine("nonobject")
    /\ lineno' = lineno + 1
    /\ sio' = "crashed"
    /\ UNCHANGED <<globals, model_lock, now, tmp_files, env, load_calls, loaded_ok,
                   loaded_for, stdin, stdout, msg_id, nreq, calls, pc, req, loc, ret>>

\* lines 367-372: no id: continue
StdioMissingId ==
    /\ AtLine("msg")
    /\ stdin[lineno + 1].id = None
    /\ lineno' = lineno + 1
    /\ msg_id' = None
    /\ UNCHANGED <<globals, model_lock, now, tmp_files, env, load_calls, loaded_ok,
                   loaded_for, stdin, stdout, sio, nreq, calls, pc, req, loc, ret>>

\* lines 367-386: the payload function of the message's type is called
StdioCall ==
    /\ AtLine("msg")
    /\ stdin[lineno + 1].id # None
    /\ stdin[lineno + 1].type \in Ops
    /\ lineno' = lineno + 1
    /\ msg_id' = stdin[lineno + 1].id
    /\ req' = [req EXCEPT ![Loop] =
                 [stdin[lineno + 1].payload EXCEPT !.op = stdin[lineno + 1].type]]
    /\ pc' = [pc EXCEPT ![Loop] = Entry(stdin[lineno + 1].type)]
    /\ loc' = [loc EXCEPT ![Loop] = [LocInit EXCEPT !.rid = lineno + 1]]
    /\ ret' = [ret EXCEPT ![Loop] = NoRet]
    /\ calls' = [calls EXCEPT ![Loop] = <<>>]
    /\ UNCHANGED <<globals, model_lock, now, tmp_files, env, load_calls, loaded_ok,
                   loaded_for, stdin, stdout, sio, nreq>>

\* lines 367-373, 376, 384, 395: a type the loop does not know
StdioUnknownType ==
    /\ AtLine("msg")
    /\ stdin[lineno + 1].id # None
    /\ stdin[lineno + 1].type \notin Ops
    /\ lineno' = lineno + 1
    /\ msg_id' = stdin[lineno + 1].id
    /\ stdout' = Append(stdout,
          ResponseLine(Val(stdin[lineno + 1].id), FALSE,
                       "unknown message type: " \o stdin[lineno + 1].type, None))
    /\ UNCHANGED <<globals, model_lock, now, tmp_files, env, load_calls, loaded_ok,
                   loaded_for, stdin, sio, nreq, calls, pc, req, loc, ret>>

\* The response of lines 374, 378-382, 386-393 to the outcome of the call.
StdioResponse(op, id, outcome) ==
    IF op = "status" THEN ResponseLine(id, TRUE, "", outcome.result)
    ELSE IF op = "warmup" THEN
        (IF outcome.kind = "raise"
           THEN ResponseLine(id, FALSE, "model load failed: " \o outcome.error, None)
           ELSE ResponseLine(id, TRUE, "", [ok |-> TRUE]))
    ELSE IF outcome.kind = "raise"
           THEN ResponseLine(id, FALSE, "transcribe failed: " \o outcome.error, None)
    ELSE IF ~outcome.ok THEN ResponseLine(id, FALSE, outcome.error, None)
    ELSE ResponseLine(id, TRUE, "", outcome.result)

\* lines 374-394: the call is over and its outcome is emitted; an exception
\* of status_payload (line 374 has no try) ends run_stdio.
StdioRespond ==
    /\ sio = "358"
    /\ pc[Loop] = "done"
    /\ IF req[Loop].op = "status" /\ ret[Loop].kind = "raise"
         THEN sio' = "crashed" /\ UNCHANGED stdout
         ELSE /\ stdout' = Append(stdout,
                                  StdioResponse(req[Loop].op, Val(msg_id), ret[Loop]))
              /\ UNCHANGED sio
    /\ pc' = [pc EXCEPT ![Loop] = "idle"]
    /\ req' = [req EXCEPT ![Loop] = DefaultPayload]
    /\ ret' = [ret EXCEPT ![Loop] = NoRet]
    /\ calls' = [calls EXCEPT ![Loop] = <<>>]
    /\ UNCHANGED <<globals, model_lock, now, tmp_files, env, load_calls, loaded_ok,
                   loaded_for, stdin, lineno, msg_id, nreq, loc>>

\* line 358: stdin is at its end, the for loop and run_stdio return
StdioEof ==
    /\ sio = "358"
    /\ pc[Loop] = "idle"
    /\ lineno = Len(stdin)
    /\ sio' = "eof"
    /\ UNCHANGED <<globals, model_lock, now, tmp_files, env, load_calls, loaded_ok,
                   loaded_for, stdin, lineno, stdout, msg_id, nreq, calls, pc, req, loc, ret>>

\* status_payload as the loop runs it: no load is in progress in the only
\* thread, so line 166 never takes its true branch.
StdioStatusStep(t) ==
    \/ StatusReadCache(t)
    \/ StatusReadLastError(t)
    \/ StatusReadLastLoadModel(t)
    \/ StatusReadLastLoadMs(t)
    \/ StatusReadLastTranscribeMs(t)
    \/ StatusReadLoadingModel(t)
    \/ StatusTestStarted(t)

StdioNext ==
    \/ StdioReady
    \/ StdioSkipLine
    \/ StdioNotAnObject
    \/ StdioMissingId
    \/ StdioCall
    \/ StdioUnknownType
    \/ StdioRespond
    \/ StdioEof
    \/ StdioStatusStep(Loop)
    \/ LoadStep(Loop)
    \/ WarmupStep(Loop)
    \/ TranscribeStep(Loop)

StdioSpec == StdioInit /\ [][StdioNext]_vars

\* ================================================================ claims
LoadPcs ==
    {"lmc101", "lmc111", "lmc112", "lmc114", "lmc142", "lmc144", "lmc145",
     "lmc146", "lmc148", "lmc149", "lmc150", "lmc151", "lmc153"}
InferPcs == {"t222", "t273"}
InLoad(t) == pc[t] \in LoadPcs
InInference(t) == pc[t] \in InferPcs

\* C1: at every instant at most one thread is inside load_model_cached or an
\* engine transcribe call (first pass or retry), and that thread holds
\* model_lock: loads and inferences never overlap one another.
C1_MutualExclusion ==
    \A t1 \in Threads :
        (InLoad(t1) \/ InInference(t1)) =>
            /\ model_lock = t1
            /\ \A t2 \in Threads \ {t1} : ~(InLoad(t2) \/ InInference(t2))

\* a thread is in the retry's engine call while another waits for the lock
C1_Witness ==
    \E t1, t2 \in Threads :
        /\ t1 # t2
        /\ pc[t1] = "t273"
        /\ pc[t2] \in {"t199", "w176"}

\* pcs of transcribe_payload after load_model_cached has returned (line 200)
AfterLoadPcs == {"t201", "t203", "t210", "t222", "t273", "t283", "t291", "t296", "t298"}

ReturnedOk(t) == pc[t] = "done" /\ ret[t].kind = "return" /\ ret[t].ok

\* C2: concurrent transcribe_payload calls for one configuration that is not
\* cached, with an engine that succeeds: the engine's load function is
\* invoked exactly once whatever the interleaving, every call works with the
\* one instance stored under the configuration's key, and every call
\* eventually returns ok:true.
C2_LoadOnceAndBothOk ==
    /\ [](\A k \in AllKeys : load_calls[k] <= 1)
    /\ [](\A t \in Threads :
            /\ pc[t] \in AfterLoadPcs =>
                 /\ loc[t].key = KeyOf(req[t], env.cuda)
                 /\ load_calls[loc[t].key] = 1
                 /\ loc[t].key \in DOMAIN model_cache
                 /\ loc[t].model = Some(model_cache[loc[t].key])
            /\ pc[t] = "done" => ReturnedOk(t))
    /\ \A t \in Threads : <>ReturnedOk(t)

\* both calls have returned ok:true after a single load
C2_Witness ==
    /\ \A t \in Threads : ReturnedOk(t) /\ req[t].op = "transcribe"
    /\ \E k \in AllKeys : load_calls[k] = 1 /\ DOMAIN model_cache = {k}

\* C3: a load_model_cached call that finds its key in model_cache (a second
\* call with the fields of an earlier successful one) returns the instance
\* the earlier load produced and does no load work: the engine load function
\* is not invoked and last_load_ms, last_load_model, loading_model,
\* loading_started_at and model_cache are unchanged by the call.
C3_CacheHitNoLoadWork ==
    [][\A t \in Threads :
        (pc[t] = "lmc101" /\ RequestKey(t) \in DOMAIN model_cache /\ pc'[t] # pc[t]) =>
            /\ pc'[t] = AfterLoad(req[t].op)
            /\ loc'[t].model = Some(model_cache[RequestKey(t)])
            /\ Val(loc'[t].model) = <<RequestKey(t), load_calls[RequestKey(t)]>>
            /\ Val(loc'[t].model) \in loaded_ok
            /\ load_calls' = load_calls
            /\ UNCHANGED <<last_load_ms, last_load_model, loading_model,
                           loading_started_at, model_cache>>]_vars

\* a call has returned from a cache hit (it never took a start time) for a
\* key whose load took measurable time
C3_Witness ==
    \E t \in Threads :
        /\ pc[t] \in {"w178", "t201"}
        /\ loc[t].start = 0
        /\ loc[t].model # None
        /\ last_load_model = Some(loc[t].key)
        /\ last_load_ms = Some(1000)

FailPcs == {"lmc142", "lmc144", "lmc145", "lmc146"}

\* C4: when the engine load raises inside load_model_cached, the call sets
\* last_error to "model load failed: <cause>", clears loading_model and
\* loading_started_at, raises the cause to its caller and the cache has no
\* entry for the key; every entry of model_cache is an instance that a
\* successful engine load returned for that key.
C4_LoadFailure ==
    /\ [](\A t \in Threads :
            /\ pc[t] \in FailPcs => loc[t].key \notin DOMAIN model_cache
            /\ pc[t] = "lmc146" =>
                 /\ last_error = Some("model load failed: " \o loc[t].cause)
                 /\ loading_model = None
                 /\ loading_started_at = None)
    /\ [](\A k \in DOMAIN model_cache :
            model_cache[k] \in loaded_ok /\ model_cache[k][1] = k)
    /\ [][\A t \in Threads :
            /\ (pc[t] = "lmc114" /\ pc'[t] = "lmc142") =>
                 /\ loc'[t].cause \in {UnavailableMsg(req[t].engine), LoadErrorMsg}
                 /\ loaded_ok' = loaded_ok
            /\ (pc[t] = "lmc146" /\ pc'[t] # pc[t]) =>
                 /\ pc'[t] = "done"
                 /\ ret'[t] = Raised(loc[t].cause)
                 /\ model_lock' = Free
                 /\ model_cache' = model_cache
                 /\ loc[t].key \notin DOMAIN model_cache']_vars

\* a warmup's load has failed and the caller has the exception
C4_Witness ==
    \E t \in Threads :
        /\ pc[t] = "done"
        /\ req[t].op = "warmup"
        /\ ret[t] = Raised(LoadErrorMsg)
        /\ last_error = Some("model load failed: load error")
        /\ model_cache = <<>>

IsTranscribeDone(t) == pc[t] = "done" /\ req[t].op = "transcribe"

\* C5 as stated: transcribe_payload always returns an object to its caller,
\* it never lets an exception propagate.
C5_AlwaysReturnsObject ==
    \A t \in Threads : IsTranscribeDone(t) => ret[t].kind = "return"

\* the causes caught by the except of line 290
CaughtCauses ==
    {InferErrorMsg, "no whisper module with load_audio found",
     "'NoneType' object has no attribute 'strip'"}

\* the exceptions raised before the try of line 209
UncaughtErrors ==
    {"missing audio_base64", "invalid literal for int() with base 10: 'four'",
     "invalid base64: Incorrect padding", LoadErrorMsg,
     "cannot create temporary file", "No space left on device"}
        \cup {UnavailableMsg(e) : e \in Engines}

\* C5 (amended): transcribe_payload returns a well-formed {ok:true, result}
\* or {ok:false, error:"transcribe failed: <cause>"} for everything that
\* happens inside its try block (load_audio, engine inference,
\* normalization), so no inference exception propagates; an exception of
\* request validation (missing audio, non-numeric batch_size), base64
\* decoding, model loading, temp-file creation or temp-file writing does
\* propagate to the caller, and does so before any engine transcribe call
\* has been made.
C5_ReturnsOrRaisesEarly ==
    \A t \in Threads : IsTranscribeDone(t) =>
        \/ /\ ret[t].kind = "return"
           /\ ret[t].ok
           /\ ret[t].error = ""
           /\ ret[t].result.segments_len = Len(ret[t].result.segments)
           /\ calls[t] # <<>>
        \/ /\ ret[t].kind = "return"
           /\ ~ret[t].ok
           /\ ret[t].error \in {"transcribe failed: " \o c : c \in CaughtCauses}
        \/ /\ ret[t].kind = "raise"
           /\ ret[t].error \in UncaughtErrors
           /\ calls[t] = <<>>

\* an inference exception has been returned as {ok:false, error}
C5_Witness ==
    \E t \in Threads :
        /\ IsTranscribeDone(t)
        /\ Len(calls[t]) = 1
        /\ calls[t][1].raised
        /\ ret[t] = Returned(FALSE, "transcribe failed: inference error", None)

\* pcs at which transcribe_payload owns a temporary file it will unlink
TmpOwnerPcs == {"t203", "t210", "t222", "t273", "t283", "t291", "t296"}

\* C6: every temporary audio file that exists belongs to a transcribe_payload
\* invocation still in progress (each invocation has removed its file by the
\* time it returns or raises), so with no call in progress none exists.
C6_TmpRemoved ==
    tmp_files \subseteq {loc[t].rid : t \in {u \in Threads : pc[u] \in TmpOwnerPcs}}

\* the first pass's text is empty after normalization
C7_EmptyAfterNormalization(r) ==
    /\ r.text = <<>>
    /\ \/ r.segments = <<>>
       \/ ~SegsWellFormed(r.segments)
       \/ JoinSegments(r.segments) = <<>>

C7_RetryDue(t) ==
    /\ ~calls[t][1].raised
    /\ C7_EmptyAfterNormalization(calls[t][1].result)
    /\ req[t].language # None
    /\ Val(req[t].language) # ""
    /\ req[t].engine # "faster-whisper"

\* C7: within one transcribe_payload invocation the engine is called a
\* second time exactly when the first result's normalized text is empty, the
\* request has a non-empty language and the engine is not faster-whisper;
\* the second call has no language argument, there is never a third call,
\* and the second result is normalized the same way (text joined from the
\* segments when its top-level text is empty).
C7_RetryExactlyWhenDue ==
    \A t \in Threads :
        /\ Len(calls[t]) <= 2
        /\ Len(calls[t]) = 2 =>
             /\ C7_RetryDue(t)
             /\ calls[t][1].kwargs.language # None
             /\ calls[t][2].kwargs.language = None
        /\ pc[t] = "t273" => Len(calls[t]) = 1 /\ C7_RetryDue(t)
        /\ (pc[t] = "t283" /\ Len(calls[t]) = 1) => ~C7_RetryDue(t)
        /\ (pc[t] = "t283" /\ Len(calls[t]) = 2 /\ ~calls[t][2].raised) =>
               /\ loc[t].text = FirstPassText(calls[t][2].result)
               /\ SegsWellFormed(calls[t][2].result.segments) =>
                    /\ loc[t].segments = calls[t][2].result.segments
                    /\ loc[t].text =
                         IF calls[t][2].result.text # <<>>
                           THEN calls[t][2].result.text
                           ELSE JoinSegments(calls[t][2].result.segments)

\* a retry without language returned segments only and the text was joined
C7_Witness ==
    \E t \in Threads :
        /\ pc[t] = "t283"
        /\ Len(calls[t]) = 2
        /\ calls[t][2].result.text = <<>>
        /\ loc[t].text = <<"a", " ", "b">>

\* the retry raised in the engine call or while its output was normalized
C8_RetryFailed(c) ==
    \/ c.raised
    \/ /\ c.result.text = <<>>
       /\ c.result.segments # <<>>
       /\ ~SegsWellFormed(c.result.segments)

\* C8: when the fallback retry raises, transcribe_payload still returns
\* ok:true and the returned text and segments are those of the first pass
\* (empty text, the first pass's segments), nothing of the failed retry.
C8_RetryFailureKeepsOriginal ==
    \A t \in Threads :
        (pc[t] = "t296" /\ Len(calls[t]) = 2 /\ C8_RetryFailed(calls[t][2])) =>
            /\ loc[t].pending.kind = "return"
            /\ loc[t].pending.ok
            /\ loc[t].pending.result.text = <<>>
            /\ loc[t].pending.result.segments = calls[t][1].result.segments

\* C9: a transcribe request whose audio_base64 is absent or empty ends in one
\* step with the exception "missing audio_base64": the lock is not taken, no
\* load is attempted, no temporary file is created, and model_cache and all
\* status fields are unchanged.
C9_MissingAudioNoEffect ==
    [][\A t \in Threads :
        (pc[t] = "t183" /\ req[t].audio = "" /\ pc'[t] # pc[t]) =>
            /\ pc'[t] = "done"
            /\ ret'[t] = Raised("missing audio_base64")
            /\ UNCHANGED <<model_cache, model_lock, last_error, last_load_model,
                           last_load_ms, last_transcribe_ms, loading_model,
                           loading_started_at, tmp_files, load_calls, loaded_ok, loaded_for, stdio>>
            /\ calls'[t] = <<>>]_vars

\* the request was rejected while another thread was in a load
C9_Witness ==
    \E t, u \in Threads :
        /\ IsTranscribeDone(t)
        /\ ret[t] = Raised("missing audio_base64")
        /\ pc[u] = "lmc114"

\* C10: status_payload, run without the lock while another thread loads,
\* always returns, and in the returned object loading_model and
\* loading_elapsed_ms are both null or both non-null.
C10_StatusConsistent ==
    \A t \in Threads :
        (pc[t] = "done" /\ req[t].op = "status") =>
            /\ ret[t].kind = "return"
            /\ (ret[t].result.loading_model = None)
                 <=> (ret[t].result.loading_elapsed_ms = None)

\* pcs at which a caller holds the model load_model_cached returned to it
HoldsModelPcs == {"w178"} \cup AfterLoadPcs

\* C11: the cache key separates configurations: a caller of load_model_cached
\* is only ever handed a model that was loaded for its own configuration
\* (engine, model_name, resolved device, compute_type, language), so two
\* configurations that differ in a field, language included, never share a
\* cache entry.
C11_KeyIdentifiesConfig ==
    \A t \in Threads :
        pc[t] \in HoldsModelPcs =>
            /\ Val(loc[t].model) \in DOMAIN loaded_for
            /\ loaded_for[Val(loc[t].model)] = LoadArgs(t)

\* C12: model_cache never evicts or replaces: a key that is present stays
\* present and mapped to the same instance across every step of warmup,
\* transcribe and status operations, successful or failing.
C12_CacheOnlyGrows ==
    [][\A k \in DOMAIN model_cache :
          /\ k \in DOMAIN model_cache'
          /\ model_cache'[k] = model_cache[k]]_vars

\* with one model cached, a later load has failed, and its entry is intact
C12_Witness ==
    \E t \in Threads, k \in DOMAIN model_cache :
        /\ pc[t] = "lmc146"
        /\ model_cache[k] = <<k, 1>>

\* pcs of transcribe_payload from the except of line 290 to its return
ExceptPcs == {"t291", "t296", "t298"}

\* the first engine call of the invocation raised
FirstPassRaised(t) == Len(calls[t]) = 1 /\ calls[t][1].raised

LockHeldPcs == LoadPcs \cup HoldsModelPcs

WaitsForLock(t) == pc[t] \in {"w176", "t199"}

C15_WritesUnderLock ==
    [][\A t \in Threads :
        (pc'[t] # pc[t] /\ globals' # globals) =>
            /\ model_lock = t
            /\ model_lock' = t
            /\ req[t].op \in {"warmup", "transcribe"}]_vars

\* a status read and an input rejection have gone by while the lock holder
\* was between two of its writes
C15_Witness ==
    \E t, u \in Threads :
        /\ pc[t] = "lmc112"
        /\ loading_model # None
        /\ pc[u] = "done"
        /\ ret[u] = Raised("invalid base64: Incorrect padding")

\* pcs of a warmup_payload invocation, load_model_cached included
WarmupPcs == {"w171", "w176", "w178", "done"} \cup LoadPcs

SameFields(p, q) ==
    /\ p.engine = q.engine
    /\ p.model = q.model
    /\ p.device = q.device
    /\ p.compute_type = q.compute_type
    /\ p.language = q.language

WarmupSucceeded(u) == ReturnedOk(u) /\ req[u].op = "warmup"

\* C16: warmup_payload loads without transcribing: no step of a warmup
\* makes an engine transcribe call, creates a temporary file or changes
\* last_transcribe_ms; and once a warmup has returned ok, a transcribe_payload
\* call with the same engine, model, device, compute_type and language finds
\* the model under its key and does no load (the key is the same on both
\* paths, the device being resolved twice on each).
C16_WarmupLoadsOnly ==
    /\ [][\A t \in Threads :
            (req[t].op = "warmup" /\ pc[t] # "done" /\ pc'[t] # pc[t]) =>
                /\ pc'[t] \in WarmupPcs
                /\ calls'[t] = <<>>
                /\ UNCHANGED <<last_transcribe_ms, tmp_files>>]_vars
    /\ [][\A t, u \in Threads :
            (/\ WarmupSucceeded(u)
             /\ req[t].op = "transcribe"
             /\ SameFields(req[t], req[u])
             /\ pc[t] = "lmc101"
             /\ pc'[t] # pc[t]) =>
                /\ pc'[t] = "t201"
                /\ loc'[t].key = KeyOf(req[u], env.cuda)
                /\ loc'[t].model = Some(model_cache[loc'[t].key])
                /\ load_calls' = load_calls
                /\ UNCHANGED <<last_load_model, last_load_ms>>]_vars
    /\ [](\A u \in Threads :
            WarmupSucceeded(u) => KeyOf(req[u], env.cuda) \in DOMAIN model_cache)

\* after a warmup for device "gpu" a transcribe for "gpu" got the model from
\* the cache: it took no start time and the one load is the warmup's
C16_Witness ==
    \E t, u \in Threads :
        /\ WarmupSucceeded(u)
        /\ req[t].op = "transcribe"
        /\ req[t].device = "gpu"
        /\ pc[t] = "t201"
        /\ loc[t].start = 0
        /\ load_calls[loc[t].key] = 1

\* a message object that carries a non-null id
HasId(line) == line.kind = "msg" /\ line.id # None

\* the ids of the id-carrying messages among the given lines, in order
IdsOf(lines) ==
    LET sel == SelectSeq(lines, HasId)
    IN [i \in 1..Len(sel) |-> Val(sel[i].id)]

\* the ids of the response lines written so far, in order
EmittedIds == [i \in 1..(Len(stdout) - 1) |-> stdout[i + 1].id]

\* C17: in stdio mode the ready line is written once, first; then, for every
\* sequence of inbound lines, each message with a non-null id gets exactly
\* one response line with that id and the other lines get none: between two
\* lines, and when run_stdio has ended, the ids of the response lines are
\* the ids of the id-carrying messages sent so far.
C17_OneResponsePerId ==
    /\ sio = "356" => stdout = <<>>
    /\ sio \in {"358", "eof", "crashed"} =>
          /\ Len(stdout) >= 1
          /\ stdout[1] = ReadyLine
          /\ \A i \in 2..Len(stdout) : stdout[i].type = "response"
    /\ (sio = "358" /\ pc[Loop] = "idle") =>
          EmittedIds = IdsOf(SubSeq(stdin, 1, lineno))
    /\ sio \in {"eof", "crashed"} => EmittedIds = IdsOf(stdin)

\* C18: the load-in-progress marker follows the load: during the engine load
\* of a cache miss loading_model is the key and loading_started_at the start
\* time; once the load has ended, by success or failure, both are null; so
\* with model_lock free both are null, and a non-null loading_model is a key
\* not yet in model_cache.
C18_LoadingMarker ==
    /\ model_lock = Free => loading_model = None /\ loading_started_at = None
    /\ loading_model # None => Val(loading_model) \notin DOMAIN model_cache
    /\ \A t \in Threads :
          /\ pc[t] = "lmc114" =>
                /\ loading_model = Some(loc[t].key)
                /\ loading_started_at = Some(loc[t].start)
          /\ pc[t] \in {"lmc146", "lmc153"} \cup HoldsModelPcs =>
                /\ loading_model = None
                /\ loading_started_at = None

\* a load is in progress for a second key while the first is cached
C18_Witness ==
    \E t \in Threads :
        /\ pc[t] = "lmc114"
        /\ loading_model = Some(loc[t].key)
        /\ model_cache # <<>>

\* C19: in every engine branch, a request whose language is unset or the
\* empty string makes its engine transcribe calls without a language
\* argument (absent from the call, not passed as "" or as a null value).
C19_EmptyLanguageOmitted ==
    \A t \in Threads :
        (req[t].op = "transcribe" /\ ~Truthy(req[t].language)) =>
            \A i \in 1..Len(calls[t]) : calls[t][i].kwargs.language = None

\* C20: in every state, those between two steps of a load included (a
\* status_payload reader takes no lock and can see them), last_load_model is
\* null or a key present in model_cache, and last_load_model is null exactly
\* when last_load_ms is null.
C20_LastLoadInCache ==
    /\ last_load_model # None => Val(last_load_model) \in DOMAIN model_cache
    /\ (last_load_model = None) <=> (last_load_ms = None)

====
